---- MODULE Spec2Model ----
(***************************************************************************)
(* The interactive fetcher of cli.js: main (the settings check and the     *)
(* menu), mainFetch (multi-select prompt, output folder, the per-standard  *)
(* fetch/combine/write loop, the summary) and installClaude.               *)
(*                                                                         *)
(* Texts are sequences of tokens: the body characters "a" and "b", and the *)
(* tokens of the separator block ("NL", "RULE80", "FILE: ", a path).       *)
(* A JavaScript value that is a string or null is a record                 *)
(* [null |-> BOOLEAN, text |-> sequence].                                  *)
(***************************************************************************)
EXTENDS Integers, Sequences, FiniteSets, TLC

\* ------------------------------------------------------------------ bounds
\* longest selection the multi-select prompt returns in the model
MaxSelect == 2
\* number of source files of the multi-file entry of MultiStandards
MaxFiles == 2

\* ------------------------------------------------------------ the catalog
\* the table with the files list of the 'content' entry left empty
StandardsEmptyFiles ==
  << [key |-> "coding", name |-> "Coding Standards",
      files |-> <<"coding-rule/CODING_STANDART.md">>,
      outputFile |-> "coding-standards.md"],
     [key |-> "design", name |-> "Design Standards",
      files |-> <<"design/DESIGN_STANDARDS.md">>,
      outputFile |-> "design-standards.md"],
     [key |-> "seo", name |-> "SEO Standards",
      files |-> <<"seo/SEO_STANDARDS.md">>,
      outputFile |-> "seo-standards.md"],
     [key |-> "accessibility", name |-> "Accessibility Standards",
      files |-> <<"accessibility/ACCESSIBILITY_STANDARDS.md">>,
      outputFile |-> "accessibility-standards.md"],
     [key |-> "content", name |-> "Content Guidelines",
      files |-> <<>>,
      outputFile |-> "content-guidelines.md"],
     [key |-> "performance", name |-> "Performance Standards",
      files |-> <<"performance/PERFORMANCE_STANDARDS.md">>,
      outputFile |-> "performance-standards.md"] >>

\* The STANDARDS table, in insertion order (the order of Object.keys and of
\* the choices of the prompt).
STANDARDS ==
  << [key |-> "coding", name |-> "Coding Standards",
      files |-> <<"coding-rule/CODING_STANDART.md">>,
      outputFile |-> "coding-standards.md"],
     [key |-> "design", name |-> "Design Standards",
      files |-> <<"design/DESIGN_STANDARDS.md">>,
      outputFile |-> "design-standards.md"],
     [key |-> "seo", name |-> "SEO Standards",
      files |-> <<"seo/SEO_STANDARDS.md">>,
      outputFile |-> "seo-standards.md"],
     [key |-> "accessibility", name |-> "Accessibility Standards",
      files |-> <<"accessibility/ACCESSIBILITY_STANDARDS.md">>,
      outputFile |-> "accessibility-standards.md"],
     [key |-> "content", name |-> "Content Guidelines",
      files |-> <<"content/CONTENT_GUIDELINES.md">>,
      outputFile |-> "content-guidelines.md"],
     [key |-> "performance", name |-> "Performance Standards",
      files |-> <<"performance/PERFORMANCE_STANDARDS.md">>,
      outputFile |-> "performance-standards.md"] >>

\* the source paths of the 'all' entry of the single-select draft
AllFiles ==
  <<"coding-rule/CODING_STANDART.md", "design/DESIGN_STANDARDS.md",
    "seo/SEO_STANDARDS.md", "accessibility/ACCESSIBILITY_STANDARDS.md",
    "content/CONTENT_GUIDELINES.md", "performance/PERFORMANCE_STANDARDS.md">>

\* A table with a multi-file entry, for the branch of mainFetch that the
\* shipped table (single-file entries only) never takes: the 'all' entry of
\* the draft, cut to MaxFiles paths and given an output name, before the
\* 'seo' entry of the shipped table.
MultiStandards ==
  << [key |-> "all", name |-> "All Standards (Combined)",
      files |-> SubSeq(AllFiles, 1, MaxFiles),
      outputFile |-> "all-standards.md"],
     STANDARDS[3] >>

\* Object.keys(table)
Keys(tbl) == [i \in 1..Len(tbl) |-> tbl[i].key]

\* table[key]
Lookup(tbl, k) == tbl[CHOOSE i \in 1..Len(tbl) : tbl[i].key = k]

\* ------------------------------------------------------------- JS values
Null == [null |-> TRUE, text |-> <<>>]

Str(t) == [null |-> FALSE, text |-> t]

Chars == {"a", "b"}

\* the bodies a request is answered with: the empty body and three texts
Texts == {<<>>, <<"a">>, <<"b">>, <<"a", "b">>}

\* what an existing output file holds before the run
OldText == <<"old">>

\* a file of the output folder: absent, or present with its data
NoFile == [exists |-> FALSE, data |-> <<>>]

FileOf(t) == [exists |-> TRUE, data |-> t]

RECURSIVE Flatten(_)
Flatten(ss) == IF ss = <<>> THEN <<>> ELSE Head(ss) \o Flatten(Tail(ss))

Range(s) == {s[i] : i \in 1..Len(s)}

\* ------------------------------------------------------------- fetchFile
\* The answer of one HTTP request: a transport error (status 0), or a status
\* with a body that is read completely (bodyOk) or whose read fails.
Outcomes ==
  {[status |-> 0, bodyOk |-> FALSE, body |-> <<>>]}
  \cup {[status |-> 404, bodyOk |-> TRUE, body |-> <<>>]}
  \cup {[status |-> 204, bodyOk |-> TRUE, body |-> <<>>]}
  \cup {[status |-> 200, bodyOk |-> FALSE, body |-> <<>>]}
  \cup {[status |-> 200, bodyOk |-> TRUE, body |-> t] : t \in Texts}

\* response.ok of node-fetch: a status of the 2xx range
ResponseOk(status) == status >= 200 /\ status <= 299

\* fetchFile with the status test of lines 53-55 outside the try block: the
\* error of a non-2xx status leaves the function
fetchFileStatusUncaught(o) ==
  IF o.status = 0 THEN [kind |-> "return", value |-> Null]
  ELSE IF ~ResponseOk(o.status) THEN [kind |-> "throw", value |-> Null]
  ELSE IF ~o.bodyOk THEN [kind |-> "return", value |-> Null]
  ELSE [kind |-> "return", value |-> Str(o.body)]

\* fetchFile: what the call hands to its caller. kind "return" carries the
\* value; kind "throw" is an error that leaves the function.
fetchFile(o) ==
  IF o.status = 0 THEN [kind |-> "return", value |-> Null]
  ELSE IF ~ResponseOk(o.status) THEN [kind |-> "return", value |-> Null]
  ELSE IF ~o.bodyOk THEN [kind |-> "return", value |-> Null]
  ELSE [kind |-> "return", value |-> Str(o.body)]

\* ------------------------------------------------------------- mainFetch
\* the answer of the multi-select prompt: absent (dismissed) or a key list
NoAnswer == [absent |-> TRUE, keys |-> <<>>]

Answer(ks) == [absent |-> FALSE, keys |-> ks]

\* line 83 without its test of the length: an empty list is let through
SelectionEmptyNoLength(r) == r.absent

\* !response.standards || response.standards.length === 0
SelectionEmpty(r) == r.absent \/ Len(r.keys) = 0

\* if (content): null and the empty string are falsy
Truthy(v) == ~v.null /\ v.text # <<>>

\* the separator block of a multi-file entry
Separator(file) ==
  <<"NL", "NL", "RULE80", "NL">> \o <<"FILE: ", file, "NL">>
    \o <<"RULE80", "NL", "NL">>

\* line 115 moved out of the test of line 114: set after every fetch
HasContentAlways(has, content) == TRUE

\* lines 114-115: hasContent after a fetchFile value
HasContentAfter(has, content) == has \/ Truthy(content)

\* line 125 without its test: a file is written for every entry
ShouldWriteAlways(has) == TRUE

\* line 125: the file is written when some part had content
ShouldWrite(has) == has

\* lines 116-121 with the test of line 117 as length >= 1: the separator
\* block follows the part of a single-file entry too
AppendPartAlwaysSeparator(combined, content, file, nfiles) ==
  IF Truthy(content)
    THEN combined \o content.text
           \o (IF nfiles >= 1 THEN Separator(file) ELSE <<>>)
    ELSE combined

\* lines 116-121: combinedContent after a fetchFile value
AppendPart(combined, content, file, nfiles) ==
  IF Truthy(content)
    THEN combined \o content.text
           \o (IF nfiles > 1 THEN Separator(file) ELSE <<>>)
    ELSE combined

\* the values of the choices at the positions S, in the order of the choices
RECURSIVE Chosen(_, _)
Chosen(tbl, S) ==
  IF S = {} THEN <<>>
  ELSE LET m == CHOOSE i \in S : \A j \in S : i <= j
       IN <<tbl[m].key>> \o Chosen(tbl, S \ {m})

\* The key lists the multi-select prompt can return: the values of the
\* selected choices, in the order of the choices.
Selections(tbl) ==
  {Chosen(tbl, S) : S \in {T \in SUBSET (1..Len(tbl)) : Cardinality(T) <= MaxSelect}}

\* line 89: the name of the output folder under process.cwd()
OutputDir == ".context"

\* writeFileSync opening the file for appending (flag 'a')
WriteFileAppend(d, name, content) ==
  [d EXCEPT ![name] = FileOf(d[name].data \o content)]

\* line 127: fs.writeFileSync(outputPath, combinedContent, 'utf8') replaces
\* the data of the file, or creates the file
WriteFile(d, name, content) == [d EXCEPT ![name] = FileOf(content)]

\* one console line
Line(tag, arg, n, m) == [tag |-> tag, arg |-> arg, n |-> n, m |-> m]

\* what fs.writeFileSync can do: write the file and return, or throw leaving
\* the file as it was, or throw after the file was opened and truncated
WriteOutcomes == {"ok", "throw", "throw_truncated"}

\* ------------------------------------------------------------------ state
VARIABLES
  pc,              \* position of the run
  standards,       \* the STANDARDS table of the run
  exitCode,        \* the process exit code, once pc is "done" or "exited"
  cause,           \* what ended the run
  settings,        \* ~/.claude/settings.json: "absent", "old", "new", "empty"
  claudeDir,       \* ~/.claude exists
  script,          \* ~/.claude/statusline-command.sh: "absent", "old", "new"
  template,        \* the packaged statusline template exists
  ret,             \* where installClaude returns to
  overwrite,       \* the answer of the overwrite prompt: "unasked", "yes", "no"
  dirExists,       \* the .context folder exists
  disk,            \* the files of the .context folder, by name
  dir0,            \* dirExists when the run started
  disk0,           \* disk when the run started
  response,        \* the answer of the multi-select prompt
  answered,        \* the multi-select prompt has returned
  idx,             \* index of the standard being processed (outer loop)
  fileIdx,         \* index of the file being fetched (inner loop)
  combinedContent,
  hasContent,
  successCount,
  failCount,
  savedFiles,
  inflight,        \* the requests that have been issued and not answered
  console,         \* the lines printed so far
  fetchLog,        \* the paths requested so far, in order
  writeLog,        \* the writeFileSync calls of mainFetch that returned
  writeCalls,      \* the names writeFileSync was called with in mainFetch
  mkdirLog,        \* number of mkdirSync calls for the .context folder
  results,         \* the answers and fetchFile values of the current entry
  entryLog,        \* one record per processed entry
  action,          \* single-select variant: the answer of the action prompt
  filename         \* single-select variant: the answer of the filename prompt

vars ==
  <<pc, standards, exitCode, cause, settings, claudeDir, script, template,
    ret, overwrite, dirExists, disk, dir0, disk0, response, answered, idx, fileIdx, combinedContent,
    hasContent, successCount, failCount, savedFiles, inflight, console,
    fetchLog, writeLog, writeCalls, mkdirLog, results, entryLog,
    action, filename>>

singleVars == <<action, filename>>

claudeVars == <<settings, claudeDir, script, template, ret, overwrite>>

loopVars ==
  <<idx, fileIdx, combinedContent, hasContent, successCount, failCount,
    savedFiles, results, entryLog>>

ioVars ==
  <<dirExists, disk, dir0, disk0, inflight, fetchLog, writeLog, writeCalls,
    mkdirLog>>

OutputNames(tbl) == {tbl[i].outputFile : i \in 1..Len(tbl)}

\* The state a run starts in, for a given table: the home folder with or
\* without earlier settings, the working directory with or without a
\* .context folder, which is empty or holds every output file of an
\* earlier run.
InitWith(tbl) ==
  /\ pc = "main"
  /\ standards = tbl
  /\ exitCode = 0
  /\ cause = ""
  /\ \E c \in {<<"absent", FALSE, "absent">>, <<"old", TRUE, "old">>} :
       /\ settings = c[1]
       /\ claudeDir = c[2]
       /\ script = c[3]
  /\ template \in BOOLEAN
  /\ ret = ""
  /\ overwrite = "unasked"
  /\ dirExists \in BOOLEAN
  /\ \E old \in BOOLEAN :
       disk = [f \in OutputNames(tbl) |->
                 IF dirExists /\ old THEN FileOf(OldText) ELSE NoFile]
  /\ dir0 = dirExists
  /\ disk0 = disk
  /\ response = NoAnswer
  /\ answered = FALSE
  /\ idx = 0
  /\ fileIdx = 0
  /\ combinedContent = <<>>
  /\ hasContent = FALSE
  /\ successCount = 0
  /\ failCount = 0
  /\ savedFiles = <<>>
  /\ inflight = <<>>
  /\ console = <<>>
  /\ fetchLog = <<>>
  /\ writeLog = <<>>
  /\ writeCalls = <<>>
  /\ mkdirLog = 0
  /\ results = <<>>
  /\ entryLog = <<>>
  /\ action = "unasked"
  /\ filename = [absent |-> TRUE, name |-> ""]

Init == InitWith(STANDARDS)

InitMulti == InitWith(MultiStandards)

\* an error that reaches main().catch: it is printed and the process exits 1
Crash(why, lines) ==
  /\ pc' = "exited"
  /\ exitCode' = 1
  /\ cause' = why
  /\ console' = console \o lines \o <<Line("error", why, 0, 0)>>

\* process.exit(code) inside a handler
Exit(code, why, lines) ==
  /\ pc' = "exited"
  /\ exitCode' = code
  /\ cause' = why
  /\ console' = console \o lines

\* ------------------------------------------------------------------- main
\* main, lines 268-285: the settings check before the menu
MainStart ==
  /\ pc = "main"
  /\ pc' = IF settings = "absent" THEN "ask_install" ELSE "menu"
  /\ console' = IF settings = "absent"
                  THEN console \o <<Line("welcome", "", 0, 0)>>
                  ELSE console
  /\ UNCHANGED <<standards, exitCode, cause, response, answered>>
  /\ UNCHANGED <<claudeVars, loopVars, ioVars>>
  /\ UNCHANGED singleVars

\* the answer to 'Would you like to install Claude settings now?'
InstallNow ==
  /\ pc = "ask_install"
  /\ \E yes \in BOOLEAN :
       /\ pc' = IF yes THEN "install" ELSE "menu"
       /\ ret' = IF yes THEN "menu" ELSE ret
  /\ UNCHANGED <<standards, exitCode, cause, response, answered, console>>
  /\ UNCHANGED <<settings, claudeDir, script, template, overwrite>>
  /\ UNCHANGED <<loopVars, ioVars>>
  /\ UNCHANGED singleVars

\* main, lines 287-307: the menu and the dispatch on its answer
Menu ==
  /\ pc = "menu"
  /\ \E choice \in {"fetch", "install", "none"} :
       IF choice = "none"
         THEN /\ Exit(0, "no action", <<Line("cancel", "", 0, 0)>>)
              /\ UNCHANGED ret
         ELSE /\ pc' = IF choice = "fetch" THEN "prompt_standards" ELSE "install"
              /\ ret' = IF choice = "install" THEN "done" ELSE ret
              /\ UNCHANGED <<exitCode, cause, console>>
  /\ UNCHANGED <<standards, response, answered>>
  /\ UNCHANGED <<settings, claudeDir, script, template, overwrite>>
  /\ UNCHANGED <<loopVars, ioVars>>
  /\ UNCHANGED singleVars

\* ---------------------------------------------------------- installClaude
\* lines 155-176: the overwrite question when settings.json exists
InstallCheck ==
  /\ pc = "install"
  /\ pc' = IF settings # "absent" THEN "overwrite" ELSE "install_files"
  /\ console' = console \o <<Line("install", "", 0, 0)>>
  /\ UNCHANGED <<standards, exitCode, cause, response, answered>>
  /\ UNCHANGED <<claudeVars, loopVars, ioVars>>
  /\ UNCHANGED singleVars

\* line 172 without its test: the installation goes on after any answer
DeclinedNever(yes) == FALSE

\* line 172: if (!overwrite.value)
Declined(yes) == ~yes

\* lines 172-175: anything but an affirmative answer cancels; a dismissed
\* prompt has no value and counts as a refusal
Overwrite ==
  /\ pc = "overwrite"
  /\ \E yes \in BOOLEAN :
       /\ overwrite' = IF yes THEN "yes" ELSE "no"
       /\ IF Declined(yes)
            THEN Exit(0, "install cancelled",
                      <<Line("install cancelled", "", 0, 0)>>)
            ELSE /\ pc' = "install_files"
                 /\ UNCHANGED <<exitCode, cause, console>>
  /\ UNCHANGED <<standards, response, answered>>
  /\ UNCHANGED <<settings, claudeDir, script, template, ret>>
  /\ UNCHANGED <<loopVars, ioVars>>
  /\ UNCHANGED singleVars

\* lines 178-265: the folder, the statusline script, settings.json.
\* mkdirSync and copyFileSync are not guarded: their error leaves
\* installClaude; the error of writeFileSync is caught and exits 1.
InstallFiles ==
  /\ pc = "install_files"
  /\ \E mk \in BOOLEAN, cp \in BOOLEAN, wr \in WriteOutcomes :
       LET needDir == ~claudeDir
           mkThrows == needDir /\ ~mk
           cpThrows == template /\ ~cp
           lines1 == IF needDir /\ mk
                       THEN <<Line("created directory", "", 0, 0)>> ELSE <<>>
           lines2 == IF template
                       THEN <<Line("copied statusline", "", 0, 0)>>
                       ELSE <<Line("template not found", "", 0, 0)>>
       IN
         IF mkThrows
           THEN /\ Crash("mkdir .claude", <<>>)
                /\ UNCHANGED <<settings, claudeDir, script>>
         ELSE IF cpThrows
           THEN /\ Crash("copy statusline", lines1)
                /\ claudeDir' = TRUE
                /\ UNCHANGED <<settings, script>>
         ELSE IF wr # "ok"
           THEN /\ Exit(1, "write settings", lines1 \o lines2
                          \o <<Line("error", "write settings", 0, 0)>>)
                /\ claudeDir' = TRUE
                /\ script' = IF template THEN "new" ELSE script
                /\ settings' = IF wr = "throw_truncated" THEN "empty" ELSE settings
         ELSE /\ claudeDir' = TRUE
              /\ script' = IF template THEN "new" ELSE script
              /\ settings' = "new"
              /\ console' = console \o lines1 \o lines2
                              \o <<Line("installed", "", 0, 0)>>
                              \o (IF ret = "menu"
                                    THEN <<Line("continue", "", 0, 0)>> ELSE <<>>)
              /\ pc' = ret
              /\ cause' = IF ret = "done" THEN "installed" ELSE cause
              /\ UNCHANGED exitCode
  /\ UNCHANGED <<standards, response, answered, template, ret, overwrite>>
  /\ UNCHANGED <<loopVars, ioVars>>
  /\ UNCHANGED singleVars

\* -------------------------------------------------------------- mainFetch
\* the outer loop walking the selection from its end
StandardReversed ==
  Lookup(standards, response.keys[Len(response.keys) + 1 - idx])

\* the standard of the outer loop, and its files
Standard == Lookup(standards, response.keys[idx])

\* lines 63-86: the banner, the multi-select prompt, the empty selection
SelectPrompt ==
  /\ pc = "prompt_standards"
  /\ \E r \in {NoAnswer} \cup {Answer(ks) : ks \in Selections(standards)} :
       /\ response' = r
       /\ answered' = TRUE
       /\ IF SelectionEmpty(r)
            THEN Exit(0, "no selection",
                      <<Line("banner", "", 0, 0), Line("cancel", "", 0, 0)>>)
            ELSE /\ pc' = "ensure_dir"
                 /\ console' = console \o <<Line("banner", "", 0, 0)>>
                 /\ UNCHANGED <<exitCode, cause>>
  /\ UNCHANGED standards
  /\ UNCHANGED <<claudeVars, loopVars, ioVars>>
  /\ UNCHANGED singleVars

\* lines 90-91 left out: the folder is never created
MkdirNever(exists) == FALSE

\* line 90 without its test: mkdirSync is called in every run
MkdirAlways(exists) == TRUE

\* line 90: if (!fs.existsSync(outputDir))
MkdirNeeded(exists) == ~exists

\* lines 88-101: the .context folder, the counters. mkdirSync is not
\* guarded: its error leaves mainFetch, and it fails when the folder exists
\* (EEXIST) or cannot be created.
EnsureDir ==
  /\ pc = "ensure_dir"
  /\ \E mk \in BOOLEAN :
       IF MkdirNeeded(dirExists) /\ (dirExists \/ ~mk)
         THEN /\ Crash("mkdir .context", <<>>)
              /\ mkdirLog' = mkdirLog + 1
              /\ UNCHANGED <<dirExists, idx, successCount, failCount, savedFiles>>
         ELSE /\ dirExists' = (dirExists \/ MkdirNeeded(dirExists))
              /\ mkdirLog' = IF MkdirNeeded(dirExists)
                                THEN mkdirLog + 1 ELSE mkdirLog
              /\ console' = console
                   \o <<Line(IF MkdirNeeded(dirExists)
                               THEN "created folder" ELSE "using folder",
                             OutputDir, 0, 0),
                        Line("downloading", "", Len(response.keys), 0)>>
              /\ successCount' = 0
              /\ failCount' = 0
              /\ savedFiles' = <<>>
              /\ idx' = 1
              /\ pc' = IF Len(response.keys) >= 1 THEN "entry" ELSE "summary"
              /\ UNCHANGED <<exitCode, cause>>
  /\ UNCHANGED <<standards, response, answered, claudeVars>>
  /\ UNCHANGED <<fileIdx, combinedContent, hasContent, results, entryLog>>
  /\ UNCHANGED <<disk, dir0, disk0, inflight, fetchLog, writeLog, writeCalls>>
  /\ UNCHANGED singleVars

\* lines 104-112: the head of the outer loop
StartEntry ==
  /\ pc = "entry"
  /\ console' = console \o <<Line("progress", Standard.name, 0, 0)>>
  /\ combinedContent' = <<>>
  /\ hasContent' = FALSE
  /\ fileIdx' = 1
  /\ results' = <<>>
  /\ pc' = IF Len(Standard.files) > 0 THEN "fetch" ELSE "finish"
  /\ UNCHANGED <<standards, exitCode, cause, response, answered, claudeVars, ioVars>>
  /\ UNCHANGED <<idx, successCount, failCount, savedFiles, entryLog>>
  /\ UNCHANGED singleVars

\* line 113 without its await: the loop goes on while the request is out
NoAwait == "fetch"

\* line 113: await, the run stops until the promise of fetchFile settles
AwaitFetch == "await_fetch"

\* line 113 and line 52: fetchFile issues its request and the run waits
FetchCall ==
  /\ pc = "fetch"
  /\ inflight' = Append(inflight, Standard.files[fileIdx])
  /\ fetchLog' = Append(fetchLog, Standard.files[fileIdx])
  /\ pc' = AwaitFetch
  /\ UNCHANGED <<standards, exitCode, cause, response, answered, console>>
  /\ UNCHANGED <<claudeVars, loopVars>>
  /\ UNCHANGED <<dirExists, disk, dir0, disk0, writeLog, writeCalls, mkdirLog>>
  /\ UNCHANGED singleVars

\* fetchFile called again for the same file after a failure
NextFileRetry(i, content) == IF content.null THEN i ELSE i + 1

\* line 112: for (const file of standard.files) goes on to the next file
\* whatever fetchFile returned
NextFile(i, content) == i + 1

\* the request is never answered: the promise of fetch never settles
FetchNeverReturns == pc = "await_fetch" /\ FALSE /\ UNCHANGED vars

\* lines 52-60 and 113-122: the request is answered, fetchFile returns and
\* the body of the inner loop runs
FetchReturn ==
  /\ pc = "await_fetch"
  /\ \E o \in Outcomes :
       LET r == fetchFile(o)
           file == Standard.files[fileIdx]
       IN
         /\ inflight' = Tail(inflight)
         /\ results' = Append(results,
                              [file |-> file, answer |-> o, kind |-> r.kind,
                               value |-> r.value])
         /\ IF r.kind = "throw"
              THEN /\ Crash("fetchFile", <<>>)
                   /\ UNCHANGED <<hasContent, combinedContent, fileIdx>>
              ELSE /\ hasContent' = HasContentAfter(hasContent, r.value)
                   /\ combinedContent' =
                        AppendPart(combinedContent, r.value, file,
                                   Len(Standard.files))
                   /\ fileIdx' = NextFile(fileIdx, r.value)
                   /\ pc' = IF NextFile(fileIdx, r.value) <= Len(Standard.files)
                              THEN "fetch" ELSE "finish"
                   /\ console' = IF r.value.null
                                   THEN console \o <<Line("error fetching", file, 0, 0)>>
                                   ELSE console
                   /\ UNCHANGED <<exitCode, cause>>
  /\ UNCHANGED <<standards, response, answered, claudeVars>>
  /\ UNCHANGED <<idx, successCount, failCount, savedFiles, entryLog>>
  /\ UNCHANGED <<dirExists, disk, dir0, disk0, fetchLog, writeLog, writeCalls, mkdirLog>>
  /\ UNCHANGED singleVars

\* the record of a processed entry
EntryRecord(saved) ==
  [key |-> Standard.key, results |-> results,
   combined |-> combinedContent, saved |-> saved]

\* where the outer loop goes after an entry
AfterEntry == IF idx < Len(response.keys) THEN "entry" ELSE "summary"

\* line 126 with one name for every entry
OutputPathShared(std) == "coding-standards.md"

\* line 126: path.join(outputDir, standard.outputFile), the file of an
\* entry inside the output folder
OutputPath(std) == std.outputFile

\* line 133 left out: the failure is not counted
FailCountForgotten(n) == n

\* line 133: failCount++
FailCountAfter(n) == n + 1

\* line 132 left out: an entry without content ends without a mark
NoFailedMark == <<>>

\* line 132: the mark of an entry without content
FailedMark == <<Line("failed", "", 0, 0)>>

\* lines 125-135: the entry's file is written, or the entry is marked
\* failed. writeFileSync is not guarded: its error leaves mainFetch; it
\* fails when the folder of the file does not exist.
FinishEntry ==
  /\ pc = "finish"
  /\ \E w \in WriteOutcomes :
       IF ShouldWrite(hasContent)
         THEN /\ writeCalls' = Append(writeCalls, OutputPath(Standard))
              /\ IF w = "ok" /\ dirExists
                   THEN /\ disk' = WriteFile(disk, OutputPath(Standard),
                                              combinedContent)
                        /\ writeLog' = Append(writeLog,
                                              [name |-> OutputPath(Standard),
                                               data |-> combinedContent])
                        /\ console' = console
                             \o <<Line("saved", Standard.outputFile, 0, 0)>>
                        /\ savedFiles' = Append(savedFiles, Standard.outputFile)
                        /\ successCount' = successCount + 1
                        /\ entryLog' = Append(entryLog, EntryRecord(TRUE))
                        /\ idx' = idx + 1
                        /\ pc' = AfterEntry
                        /\ UNCHANGED <<exitCode, cause, failCount>>
                   ELSE /\ disk' = IF w = "throw_truncated" /\ dirExists
                                     THEN [disk EXCEPT
                                             ![OutputPath(Standard)] = FileOf(<<>>)]
                                     ELSE disk
                        /\ Crash("write output", <<>>)
                        /\ UNCHANGED <<writeLog, savedFiles, successCount,
                                       failCount, entryLog, idx>>
         ELSE /\ w = "ok"
              /\ console' = console \o FailedMark
              /\ failCount' = FailCountAfter(failCount)
              /\ entryLog' = Append(entryLog, EntryRecord(FALSE))
              /\ idx' = idx + 1
              /\ pc' = AfterEntry
              /\ UNCHANGED <<exitCode, cause, disk, writeLog, writeCalls,
                             savedFiles, successCount>>
  /\ UNCHANGED <<standards, response, answered, claudeVars>>
  /\ UNCHANGED <<fileIdx, combinedContent, hasContent, results>>
  /\ UNCHANGED <<dirExists, dir0, disk0, inflight, fetchLog, mkdirLog>>
  /\ UNCHANGED singleVars

\* lines 138-153: the summary; mainFetch returns, main resolves and the
\* process ends with exit code 0
Summary ==
  /\ pc = "summary"
  /\ console' = console
       \o <<Line("complete", "", successCount, failCount)>>
       \o (IF failCount > 0 THEN <<Line("failed count", "", failCount, 0)>> ELSE <<>>)
       \o [i \in 1..Len(savedFiles) |-> Line("downloaded", savedFiles[i], 0, 0)]
  /\ pc' = "done"
  /\ exitCode' = 0
  /\ cause' = "summary"
  /\ UNCHANGED <<standards, response, answered, claudeVars, loopVars, ioVars>>
  /\ UNCHANGED singleVars

Next ==
  \/ MainStart
  \/ InstallNow
  \/ Menu
  \/ InstallCheck
  \/ Overwrite
  \/ InstallFiles
  \/ SelectPrompt
  \/ EnsureDir
  \/ StartEntry
  \/ FetchCall
  \/ FetchReturn
  \/ FinishEntry
  \/ Summary

Spec == Init /\ [][Next]_vars

SpecMulti == InitMulti /\ [][Next]_vars

\* the runs in which every call the run waits for returns: each prompt is
\* answered or dismissed, each request is answered or fails, each
\* filesystem call returns or throws
SpecFair == InitMulti /\ [][Next]_vars /\ WF_vars(Next)

\* ------------------------------------------- the single-select variant
\* The earlier command of the package: one standard is picked, its sources
\* are fetched and combined, and the user chooses to display the result, to
\* save it under a name of their choice in the working directory, or both.

\* its table: the combined entry and the six single entries, without
\* output file names
SingleStandards ==
  << [key |-> "all", name |-> "All Standards (Combined)",
      files |-> SubSeq(AllFiles, 1, MaxFiles)] >>
  \o [i \in 1..Len(STANDARDS) |->
        [key |-> STANDARDS[i].key, name |-> STANDARDS[i].name,
         files |-> STANDARDS[i].files]]

\* the name the filename prompt proposes
DefaultName(key) == "ai-context-" \o key \o ".md"

\* a name the user types instead
OtherName == "notes.md"

\* the files of the working directory the run can touch
SingleNames ==
  {DefaultName(SingleStandards[i].key) : i \in 1..Len(SingleStandards)}
    \cup {OtherName}

\* the answer of the filename prompt: none when the prompt is aborted
NoName == [absent |-> TRUE, name |-> ""]

Name(n) == [absent |-> FALSE, name |-> n]

FilenameAnswers(key) == {NoName, Name(""), Name(DefaultName(key)), Name(OtherName)}

\* line 148 without its test: the file is written whatever was entered
HasNameAlways(f) == TRUE

\* if (filename.filename)
HasName(f) == ~f.absent /\ f.name # ""

\* the entry picked at the select prompt
Selected == Lookup(standards, response.keys[1])

\* the loop body of the variant: the label block of a file stands before
\* its text, for every entry
AppendWithHeader(combined, content, file) ==
  IF Truthy(content)
    THEN combined \o Separator(file) \o content.text
    ELSE combined

\* the variant without its test of the combined content
NothingFetchedNever(combined) == FALSE

\* if (!combinedContent)
NothingFetched(combined) == combined = <<>>

\* the variables the variant does not use
singleRest ==
  <<standards, claudeVars, idx, hasContent, successCount, failCount,
    savedFiles, entryLog, dirExists, dir0, disk0, mkdirLog>>

InitSingle ==
  /\ pc = "single_main"
  /\ standards = SingleStandards
  /\ exitCode = 0
  /\ cause = ""
  /\ settings = "absent"
  /\ claudeDir = FALSE
  /\ script = "absent"
  /\ template = FALSE
  /\ ret = ""
  /\ overwrite = "unasked"
  /\ dirExists = TRUE
  /\ \E old \in BOOLEAN :
       disk = [f \in SingleNames |-> IF old THEN FileOf(OldText) ELSE NoFile]
  /\ dir0 = dirExists
  /\ disk0 = disk
  /\ response = NoAnswer
  /\ answered = FALSE
  /\ idx = 0
  /\ fileIdx = 0
  /\ combinedContent = <<>>
  /\ hasContent = FALSE
  /\ successCount = 0
  /\ failCount = 0
  /\ savedFiles = <<>>
  /\ inflight = <<>>
  /\ console = <<>>
  /\ fetchLog = <<>>
  /\ writeLog = <<>>
  /\ writeCalls = <<>>
  /\ mkdirLog = 0
  /\ results = <<>>
  /\ entryLog = <<>>
  /\ action = "unasked"
  /\ filename = [absent |-> TRUE, name |-> ""]

\* the banner, the select prompt and its answer
SingleSelect ==
  /\ pc = "single_main"
  /\ \E r \in {NoAnswer}
              \cup {Answer(<<standards[i].key>>) : i \in 1..Len(standards)} :
       /\ response' = r
       /\ answered' = TRUE
       /\ IF r.absent
            THEN /\ Exit(0, "no selection",
                         <<Line("banner", "", 0, 0), Line("cancel", "", 0, 0)>>)
                 /\ UNCHANGED <<fileIdx, combinedContent, results>>
            ELSE /\ console' = console
                      \o <<Line("banner", "", 0, 0),
                           Line("fetching", Lookup(standards, r.keys[1]).name, 0, 0)>>
                 /\ combinedContent' = <<>>
                 /\ fileIdx' = 1
                 /\ results' = <<>>
                 /\ pc' = "single_fetch"
                 /\ UNCHANGED <<exitCode, cause>>
  /\ UNCHANGED <<singleRest, disk, inflight, fetchLog, writeLog, writeCalls>>
  /\ UNCHANGED singleVars

\* the head of the loop: the progress line, fetchFile issues its request
SingleFetchCall ==
  /\ pc = "single_fetch"
  /\ console' = console
       \o <<Line("downloading file", Selected.files[fileIdx], 0, 0)>>
  /\ inflight' = Append(inflight, Selected.files[fileIdx])
  /\ fetchLog' = Append(fetchLog, Selected.files[fileIdx])
  /\ pc' = "single_await"
  /\ UNCHANGED <<singleRest, exitCode, cause, response, answered>>
  /\ UNCHANGED <<fileIdx, combinedContent, results, disk, writeLog, writeCalls>>
  /\ UNCHANGED singleVars

\* fetchFile returns and the loop body runs; after the last source the
\* combined content is tested and the action prompt is shown
SingleFetchReturn ==
  /\ pc = "single_await"
  /\ \E o \in Outcomes :
       LET r == fetchFile(o)
           file == Selected.files[fileIdx]
           combined == AppendWithHeader(combinedContent, r.value, file)
           failed == IF r.value.null
                       THEN <<Line("error fetching", file, 0, 0)>> ELSE <<>>
       IN
         /\ inflight' = Tail(inflight)
         /\ results' = Append(results,
                              [file |-> file, answer |-> o, kind |-> r.kind,
                               value |-> r.value])
         /\ IF r.kind = "throw"
              THEN /\ Crash("fetchFile", <<>>)
                   /\ UNCHANGED <<combinedContent, fileIdx>>
              ELSE /\ combinedContent' = combined
                   /\ fileIdx' = fileIdx + 1
                   /\ IF fileIdx < Len(Selected.files)
                        THEN /\ pc' = "single_fetch"
                             /\ console' = console \o failed
                             /\ UNCHANGED <<exitCode, cause>>
                        ELSE IF NothingFetched(combined)
                          THEN Exit(1, "nothing fetched",
                                    failed \o <<Line("failed to fetch any", "", 0, 0)>>)
                          ELSE /\ pc' = "single_action"
                               /\ console' = console \o failed
                                    \o <<Line("action prompt", "", 0, 0)>>
                               /\ UNCHANGED <<exitCode, cause>>
  /\ UNCHANGED <<singleRest, response, answered>>
  /\ UNCHANGED <<disk, fetchLog, writeLog, writeCalls>>
  /\ UNCHANGED singleVars

\* the run has come to the end of main
SingleDone(lines) ==
  /\ pc' = "done"
  /\ exitCode' = 0
  /\ cause' = "end of main"
  /\ console' = console \o lines \o <<Line("all done", "", 0, 0)>>

\* the answer of the action prompt; the content is displayed; the filename
\* prompt is shown
SingleAction ==
  /\ pc = "single_action"
  /\ \E a \in {"none", "display", "save", "both"} :
       /\ action' = a
       /\ UNCHANGED filename
       /\ LET shown == IF a \in {"display", "both"}
                         THEN <<Line("content start", "", 0, 0),
                                Line("content", combinedContent, 0, 0),
                                Line("content end", "", 0, 0)>>
                         ELSE <<>>
          IN IF a = "none"
               THEN Exit(0, "no action", <<Line("no action", "", 0, 0)>>)
               ELSE IF a \in {"save", "both"}
                 THEN /\ pc' = "single_filename"
                      /\ console' = console \o shown
                           \o <<Line("filename prompt",
                                     DefaultName(Selected.key), 0, 0)>>
                      /\ UNCHANGED <<exitCode, cause>>
                 ELSE SingleDone(shown)
  /\ UNCHANGED <<singleRest, response, answered, fileIdx, combinedContent, results>>
  /\ UNCHANGED <<disk, inflight, fetchLog, writeLog, writeCalls>>

\* the answer of the filename prompt; the content is written under that
\* name in the working directory. writeFileSync is not guarded.
SingleSave ==
  /\ pc = "single_filename"
  /\ \E f \in FilenameAnswers(Selected.key), w \in WriteOutcomes :
       /\ filename' = f
       /\ UNCHANGED action
       /\ IF HasName(f)
            THEN /\ writeCalls' = Append(writeCalls, f.name)
                 /\ IF w = "ok"
                      THEN /\ disk' = WriteFile(disk, f.name, combinedContent)
                           /\ writeLog' = Append(writeLog,
                                                 [name |-> f.name,
                                                  data |-> combinedContent])
                           /\ SingleDone(<<Line("saved to", f.name, 0, 0)>>)
                      ELSE /\ disk' = IF w = "throw_truncated"
                                        THEN [disk EXCEPT ![f.name] = FileOf(<<>>)]
                                        ELSE disk
                           /\ Crash("write output", <<>>)
                           /\ UNCHANGED writeLog
            ELSE /\ w = "ok"
                 /\ SingleDone(<<>>)
                 /\ UNCHANGED <<disk, writeLog, writeCalls>>
  /\ UNCHANGED <<singleRest, response, answered, fileIdx, combinedContent, results>>
  /\ UNCHANGED <<inflight, fetchLog>>

NextSingle ==
  \/ SingleSelect
  \/ SingleFetchCall
  \/ SingleFetchReturn
  \/ SingleAction
  \/ SingleSave

SpecSingle == InitSingle /\ [][NextSingle]_vars

\* ================================================================ claims
\* the entry of the table an entry record is about
EntryOf(e) == Lookup(standards, e.key)

\* every fetchFile of the entry returned the failure value
AllFailed(rs) == Len(rs) >= 1 /\ \A j \in 1..Len(rs) : rs[j].value.null

\* some fetchFile of the entry returned content that counts
SomeContent(rs) ==
  \E j \in 1..Len(rs) : ~rs[j].value.null /\ rs[j].value.text # <<>>

\* the combined content the results of an entry call for: the texts with
\* content, in order, each followed by its separator in a multi-file entry
RECURSIVE Expected(_, _)
Expected(rs, nfiles) ==
  IF rs = <<>> THEN <<>>
  ELSE (IF ~Head(rs).value.null /\ Head(rs).value.text # <<>>
          THEN Head(rs).value.text
                 \o (IF nfiles > 1 THEN Separator(Head(rs).file) ELSE <<>>)
          ELSE <<>>)
       \o Expected(Tail(rs), nfiles)

\* C1: when the multi-select prompt returns no keys (no answer or an empty
\* list) the run has ended with exit code 0, its last line is the
\* cancellation notice, no request was issued, the .context folder was not
\* created and no output file was written or changed.
C1_EmptySelection ==
  (answered /\ (response.absent \/ response.keys = <<>>)) =>
    /\ pc = "exited"
    /\ exitCode = 0
    /\ console # <<>>
    /\ console[Len(console)].tag = "cancel"
    /\ fetchLog = <<>>
    /\ inflight = <<>>
    /\ mkdirLog = 0
    /\ dirExists = dir0
    /\ writeCalls = <<>>
    /\ disk = disk0

\* C1 witness: the prompt returned an empty list and the run has ended
C1_Witness ==
  /\ answered
  /\ ~response.absent
  /\ response.keys = <<>>
  /\ pc = "exited"
  /\ ~dirExists

\* C2: an entry all of whose fetches failed is not saved and counted as
\* failed, writeFileSync is never called for it and its file is as it was;
\* the loop has moved on to the next entry, and every entry processed after
\* it is saved or not, with its content, as its own fetches alone decide.
C2_TotalFailureContained ==
  \A i \in 1..Len(entryLog) :
    AllFailed(entryLog[i].results) =>
      /\ ~entryLog[i].saved
      /\ failCount >= 1
      /\ failCount = Cardinality({j \in 1..Len(entryLog) : ~entryLog[j].saved})
      /\ EntryOf(entryLog[i]).outputFile \notin Range(writeCalls)
      /\ disk[EntryOf(entryLog[i]).outputFile]
           = disk0[EntryOf(entryLog[i]).outputFile]
      /\ idx = Len(entryLog) + 1
      /\ (Len(entryLog) = i /\ pc = "exited") =>
            /\ cause = "write output"
            /\ i < Len(response.keys)
            /\ writeCalls # <<>>
            /\ writeCalls[Len(writeCalls)]
                 = Lookup(standards, response.keys[i + 1]).outputFile
      /\ pc = "done" => Len(entryLog) = Len(response.keys)
      /\ \A j \in (i + 1)..Len(entryLog) :
            /\ entryLog[j].saved = SomeContent(entryLog[j].results)
            /\ entryLog[j].combined
                 = Expected(entryLog[j].results,
                            Len(EntryOf(entryLog[j]).files))
            /\ entryLog[j].saved =>
                 disk[EntryOf(entryLog[j]).outputFile]
                   = FileOf(entryLog[j].combined)

\* C2 witness: a failed first entry, and a second entry saved after it
C2_Witness ==
  /\ pc = "done"
  /\ Len(entryLog) = 2
  /\ AllFailed(entryLog[1].results)
  /\ entryLog[2].saved
  /\ disk[EntryOf(entryLog[2]).outputFile].data # <<>>

\* the body characters of a text, without the tokens of the separators
IsChar(x) == x \in Chars

BodyOf(t) == SelectSeq(t, IsChar)

\* the texts fetchFile returned for an entry, in order, put together
RECURSIVE ReturnedTexts(_)
ReturnedTexts(rs) ==
  IF rs = <<>> THEN <<>>
  ELSE (IF Head(rs).value.null THEN <<>> ELSE Head(rs).value.text)
       \o ReturnedTexts(Tail(rs))

FetchRunEnded ==
  /\ answered
  /\ ~response.absent
  /\ response.keys # <<>>
  /\ pc \in {"done", "exited"}

\* C4: a run in which at least one selected entry succeeded ends with exit
\* code 0, and a run in which every selected entry failed to produce any
\* output ends with a non-zero exit code.
C4_ExitCode ==
  FetchRunEnded =>
    /\ successCount >= 1 => exitCode = 0
    /\ (/\ Len(entryLog) = Len(response.keys)
        /\ \A i \in 1..Len(entryLog) : ~entryLog[i].saved) => exitCode # 0

\* C5: when writeFileSync fails for an entry's file, the entry is recorded
\* as failed and the loop goes on; the run is not ended by the failure.
C5_WriteFailureContained ==
  Len(writeCalls) > Len(writeLog) =>
    /\ ~(pc = "exited" /\ cause = "write output")
    /\ failCount >= 1
    /\ idx = Len(entryLog) + 1

\* every answer and fetchFile value on record
AllResults ==
  Range(results) \cup UNION {Range(entryLog[i].results) : i \in 1..Len(entryLog)}

\* C6: whatever the answer of the request, fetchFile returns: the body when
\* the status is 2xx and the body was read, null for a transport error, a
\* non-2xx status or a failed read; no error of fetchFile ends the run.
C6_FetchFileNeverThrows ==
  /\ cause # "fetchFile"
  /\ \A r \in AllResults :
       /\ r.kind = "return"
       /\ IF r.answer.status >= 200 /\ r.answer.status < 300 /\ r.answer.bodyOk
            THEN r.value = [null |-> FALSE, text |-> r.answer.body]
            ELSE r.value = [null |-> TRUE, text |-> <<>>]

\* C6 witness: an entry with a request answered 404 has been processed and
\* the run went on to its summary
C6_Witness ==
  /\ pc = "done"
  /\ \E i \in 1..Len(entryLog) :
       /\ entryLog[i].results[1].answer.status = 404
       /\ entryLog[i].results[1].value.null
  /\ \E i \in 1..Len(entryLog) :
       /\ entryLog[i].results[1].answer.status = 0
       /\ entryLog[i].results[1].value.null

\* C7: an entry with a single source whose request is answered 200 OK, the
\* body read completely, is written to disk and counted as a success,
\* whatever the body is.
C7_Status200IsSuccess ==
  \A i \in 1..Len(entryLog) :
    LET e == entryLog[i] IN
      (/\ Len(e.results) = 1
       /\ e.results[1].answer.status = 200
       /\ e.results[1].answer.bodyOk) =>
        /\ e.saved
        /\ EntryOf(e).outputFile \in Range(savedFiles)
        /\ disk[EntryOf(e).outputFile] = FileOf(e.results[1].answer.body)

\* C8: for an entry with exactly one source whose fetch succeeds with text
\* t, the combined content is exactly t, and the content written to the
\* entry's file and held by it afterwards is exactly t: no separator block.
C8_SinglePartIdentity ==
  /\ (/\ pc = "finish"
      /\ Len(Standard.files) = 1
      /\ ~results[1].value.null) => combinedContent = results[1].answer.body
  /\ \A i \in 1..Len(entryLog) :
       LET e == entryLog[i] IN
         (/\ Len(EntryOf(e).files) = 1
          /\ ~e.results[1].value.null) =>
           /\ e.combined = e.results[1].answer.body
           /\ e.saved =>
                /\ [name |-> EntryOf(e).outputFile,
                    data |-> e.results[1].answer.body] \in Range(writeLog)
                /\ disk[EntryOf(e).outputFile]
                     = FileOf(e.results[1].answer.body)

\* C8 witness: a single-source entry answered with a non-empty text has
\* been written
C8_Witness ==
  \E i \in 1..Len(entryLog) :
    /\ Len(EntryOf(entryLog[i]).files) = 1
    /\ entryLog[i].saved
    /\ entryLog[i].results[1].answer.body # <<>>
    /\ disk[EntryOf(entryLog[i]).outputFile].data
         = entryLog[i].results[1].answer.body

\* the source paths of the first n selected entries, in order
SelectedFiles(n) ==
  Flatten([i \in 1..n |-> Lookup(standards, response.keys[i]).files])

\* C9: the entries are processed in the order of the selection, the sources
\* of an entry are requested in the order of its files list, and the texts
\* of the successful sources stand in the combined content in that order.
C9_Ordering ==
  /\ Len(entryLog) <= Len(response.keys)
  /\ \A i \in 1..Len(entryLog) : entryLog[i].key = response.keys[i]
  /\ pc \in {"fetch", "await_fetch", "finish"} =>
       /\ Standard.key = response.keys[Len(entryLog) + 1]
       /\ fetchLog = SelectedFiles(Len(entryLog))
                       \o SubSeq(Standard.files, 1, Len(fetchLog)
                                   - Len(SelectedFiles(Len(entryLog))))
       /\ BodyOf(combinedContent) = ReturnedTexts(results)
  /\ pc \in {"entry", "summary", "done"} =>
       fetchLog = SelectedFiles(Len(entryLog))
  /\ \A i \in 1..Len(entryLog) :
       LET e == entryLog[i] IN
         /\ [j \in 1..Len(e.results) |-> e.results[j].file] = EntryOf(e).files
         /\ BodyOf(e.combined) = ReturnedTexts(e.results)
         /\ e.saved => BodyOf(disk[EntryOf(e).outputFile].data)
                         = ReturnedTexts(e.results)

\* C9 witness: two entries processed in the order selected, the first with
\* two sources answered with different texts
C9_Witness ==
  /\ pc = "done"
  /\ Len(entryLog) = 2
  /\ Len(entryLog[1].results) >= 2
  /\ entryLog[1].results[1].answer.body = <<"a">>
  /\ entryLog[1].results[2].answer.body = <<"b">>
  /\ entryLog[1].saved
  /\ entryLog[2].saved

\* the output names of the selected entries that succeeded so far
SucceededNames ==
  {EntryOf(entryLog[i]).outputFile :
     i \in {j \in 1..Len(entryLog) : SomeContent(entryLog[j].results)}}

\* the output names of the selected entries
SelectedNames ==
  {Lookup(standards, response.keys[i]).outputFile : i \in 1..Len(response.keys)}

\* C10: the files written are exactly the output files of the selected
\* entries that succeeded, each written once, and they are the files the
\* summary lists; no file of an entry that was not selected is written or
\* changed. This holds in every state, so at the end of every run.
C10_OneFilePerSuccess ==
  /\ {writeLog[i].name : i \in 1..Len(writeLog)} = SucceededNames
  /\ Len(writeLog) = Cardinality(SucceededNames)
  /\ Range(savedFiles) = SucceededNames
  /\ Len(savedFiles) = successCount
  /\ successCount = Cardinality(SucceededNames)
  /\ \A f \in SucceededNames : disk[f].exists
  /\ \A f \in OutputNames(standards) \ SelectedNames :
       /\ f \notin Range(writeCalls)
       /\ disk[f] = disk0[f]
  /\ \A f \in OutputNames(standards) \ SucceededNames :
       disk[f] # disk0[f] =>
         /\ pc = "exited"
         /\ cause = "write output"
         /\ f = writeCalls[Len(writeCalls)]

\* C10 witness: a run of two entries has ended, one saved and one failed,
\* in a folder that held no file before
C10_Witness ==
  /\ pc = "done"
  /\ Len(entryLog) = 2
  /\ successCount = 1
  /\ failCount = 1
  /\ Cardinality({f \in OutputNames(standards) : disk[f].exists}) = 1

\* the files present in the output folder
Present(d) == {f \in DOMAIN d : d[f].exists}

\* C11: when an entry's output file already exists and the entry is saved
\* again, the file afterwards holds the new content alone (nothing of the
\* old content), and the folder holds the files it held before and the
\* files written, no other.
C11_OverwriteSemantics ==
  /\ \A i \in 1..Len(entryLog) :
       LET e == entryLog[i] IN
         (e.saved /\ disk0[EntryOf(e).outputFile].exists) =>
           /\ disk[EntryOf(e).outputFile] = FileOf(e.combined)
           /\ \A x \in Range(OldText) :
                x \notin Range(disk[EntryOf(e).outputFile].data)
  /\ (pc # "exited" \/ cause # "write output") =>
       Present(disk) = Present(disk0) \cup {writeLog[i].name : i \in 1..Len(writeLog)}

\* C11 witness: a file that held the old text has been written with a
\* different text, and the folder holds as many files as before
C11_Witness ==
  /\ pc = "done"
  /\ \E i \in 1..Len(entryLog) :
       /\ entryLog[i].saved
       /\ disk0[EntryOf(entryLog[i]).outputFile] = FileOf(OldText)
       /\ disk[EntryOf(entryLog[i]).outputFile].data = <<"a", "b">>
  /\ Cardinality(Present(disk)) = Cardinality(Present(disk0))

\* a path separator occurs in the name
HasSeparator(name) ==
  \E i \in 1..Len(name) : SubSeq(name, i, i) \in {"/", "\\"}

\* the three conditions on the entries of the STANDARDS table
TableWellFormed ==
  /\ \A i, j \in 1..Len(STANDARDS) :
       i # j => STANDARDS[i].key # STANDARDS[j].key
  /\ \A i \in 1..Len(STANDARDS) :
       /\ Len(STANDARDS[i].files) >= 1
       /\ ~HasSeparator(STANDARDS[i].outputFile)

\* C12: in the table of the run the keys are pairwise distinct, every entry
\* has at least one source path and no outputFile holds a path separator;
\* the table is the STANDARDS table in every state.
C12_CatalogInvariant ==
  /\ standards = STANDARDS
  /\ TableWellFormed

\* C12 witness: a run has processed two entries and printed its summary
C12_Witness ==
  /\ pc = "done"
  /\ Len(entryLog) = 2
  /\ successCount = 1
  /\ standards = STANDARDS

\* every fetchFile of every processed entry returned text
EveryFetchSucceeded ==
  \A i \in 1..Len(entryLog) :
    \A j \in 1..Len(entryLog[i].results) : ~entryLog[i].results[j].value.null

\* C13: when every selected entry has a single source and every fetch
\* succeeded, at the summary each selected entry's file holds exactly the
\* text fetched for it, the success count is the number of selected entries
\* and the failure count is 0.
C13_EndToEnd ==
  (/\ pc = "done"
   /\ cause = "summary"
   /\ \A i \in 1..Len(entryLog) : Len(EntryOf(entryLog[i]).files) = 1
   /\ EveryFetchSucceeded) =>
    /\ successCount = Len(response.keys)
    /\ failCount = 0
    /\ \A i \in 1..Len(entryLog) :
         disk[EntryOf(entryLog[i]).outputFile]
           = FileOf(entryLog[i].results[1].answer.body)
    /\ \E k \in 1..Len(console) :
         console[k] = Line("complete", "", Len(response.keys), 0)

\* C15: the folder the run creates or uses for the fetched standards is
\* named ai-context.
C15_FolderNamedAiContext ==
  /\ \A k \in 1..Len(console) :
       console[k].tag \in {"created folder", "using folder"} =>
         console[k].arg = "ai-context"
  /\ writeLog # <<>> => OutputDir = "ai-context"

\* the entries of the log with two sources that both returned content
TwoPartEntries ==
  {i \in 1..Len(entryLog) :
     /\ Len(entryLog[i].results) = 2
     /\ Truthy(entryLog[i].results[1].value)
     /\ Truthy(entryLog[i].results[2].value)}

Parts(rs) == Cardinality({j \in 1..Len(rs) : Truthy(rs[j].value)})

\* the number of separator blocks of a text: one label per block
Blocks(t) == Cardinality({j \in 1..Len(t) : t[j] = "FILE: "})

SummaryLines ==
  LET k == CHOOSE j \in 1..Len(console) : console[j].tag = "complete"
  IN SubSeq(console, k, Len(console))

\* the source paths of an entry for which fetchFile returned null, in order
RECURSIVE FailedPaths(_)
FailedPaths(rs) ==
  IF rs = <<>> THEN <<>>
  ELSE (IF Head(rs).value.null THEN <<Head(rs).file>> ELSE <<>>)
       \o FailedPaths(Tail(rs))

\* C18: at the end of a run the summary names, for every processed entry,
\* each of its source paths that failed, in source order, and tells an
\* entry saved from all M of its sources from one saved from N < M of them.
C18_SummaryRecordsFailedSources ==
  (pc = "done" /\ cause = "summary") =>
    \A i \in 1..Len(entryLog) :
      LET e      == entryLog[i]
          failed == FailedPaths(e.results)
          named  == SelectSeq(SummaryLines,
                              LAMBDA l : l.arg \in Range(failed))
      IN /\ [j \in 1..Len(named) |-> named[j].arg] = failed
         /\ (e.saved /\ failed # <<>>) =>
              \E j \in 1..Len(SummaryLines) :
                /\ SummaryLines[j].n = Len(e.results) - Len(failed)
                /\ SummaryLines[j].m = Len(e.results)
                /\ SummaryLines[j].arg = e.key

\* the state of the orchestrator a position of the run belongs to
Phase(p) ==
  CASE p = "prompt_standards" -> "Selecting"
    [] p = "ensure_dir" -> "Selecting"
    [] p \in {"entry", "fetch", "await_fetch", "finish"} -> "Processing"
    [] p = "summary" -> "Summarizing"
    [] p \in {"done", "exited"} -> "Done"
    [] OTHER -> "Idle"

\* C19: a step of the run goes from Idle to Selecting, from Selecting to Done
\* on an empty selection or else on to Processing, from Processing to
\* Processing or to Summarizing, and from Summarizing to Done; the run never
\* goes from Processing to Done.
C19_StateMachine ==
  [][ LET a == Phase(pc)
          b == Phase(pc')
      IN CASE a = "Selecting" ->
                \/ b = "Selecting"
                \/ b = "Processing"
                \/ b = "Done" /\ SelectionEmpty(response')
           [] a = "Processing" -> b \in {"Processing", "Summarizing"}
           [] a = "Summarizing" -> b = "Done"
           [] a = "Done" -> b = "Done"
           [] OTHER -> TRUE ]_vars

\* an entry is being processed: its fetches or its write are not yet logged
EntryOpen ==
  \/ pc \in {"fetch", "await_fetch", "finish"}
  \/ pc = "exited" /\ cause \in {"fetchFile", "write output"}

\* the requests the run has issued so far if it issues them one by one: all
\* sources of the logged entries, then the first sources of the open entry
IssuedInOrder ==
  SelectedFiles(Len(entryLog))
    \o (IF EntryOpen
          THEN SubSeq(Standard.files, 1, Len(results) + Len(inflight))
          ELSE <<>>)

\* C20: at most one request is out at any time and only while the run waits
\* for it; every request is issued after all earlier requests were answered;
\* an entry is written or marked failed only when all its requests were
\* answered; no request of a later entry is issued before that.
C20_StrictSequencing ==
  /\ Len(inflight) <= 1
  /\ (Len(inflight) = 1) <=> (pc = "await_fetch")
  /\ fetchLog = IssuedInOrder
  /\ pc = "finish" => Len(results) = Len(Standard.files)
  /\ \A i \in 1..Len(entryLog) :
       Len(entryLog[i].results) = Len(EntryOf(entryLog[i]).files)
  /\ Len(writeCalls) <= Len(entryLog) + (IF pc = "exited" THEN 1 ELSE 0)

C20_Witness ==
  /\ pc = "await_fetch"
  /\ idx = 2
  /\ fileIdx = 1
  /\ Len(entryLog) = 1
  /\ entryLog[1].saved
  /\ Len(entryLog[1].results) = 2
  /\ Len(fetchLog) = 3
  /\ Len(writeCalls) = 1

\* C14: in the single-select variant, once every source of the picked
\* standard has failed the process has exited with code 1, the action prompt
\* and the filename prompt were not shown, no content was displayed and no
\* file was written or changed.
C14_SingleAllFailed ==
  (/\ pc \notin {"single_main", "single_fetch", "single_await"}
   /\ ~response.absent
   /\ Len(results) = Len(Selected.files)
   /\ AllFailed(results)) =>
    /\ pc = "exited"
    /\ exitCode = 1
    /\ cause = "nothing fetched"
    /\ \A k \in 1..Len(console) :
         console[k].tag \notin {"action prompt", "content start", "content",
                                "filename prompt", "saved to"}
    /\ writeCalls = <<>>
    /\ disk = disk0

C14_Witness ==
  /\ pc = "exited"
  /\ exitCode = 1
  /\ Len(results) = 2
  /\ results[1].answer.status = 404
  /\ results[2].answer.status = 0
  /\ console[Len(console)].tag = "failed to fetch any"
  /\ disk = disk0

\* s is the start of t
IsPrefix(s, t) == Len(s) <= Len(t) /\ SubSeq(t, 1, Len(s)) = s

\* C21: every call of fetchFile issues one request, so the requests issued
\* are at any time the first source paths of the selected entries, one per
\* path and none twice, whatever the answers were; once the loop is through
\* they are exactly the source paths of all selected entries.
C21_FetchCount ==
  /\ Len(fetchLog) = Len(inflight) + Len(SelectedFiles(Len(entryLog)))
                       + (IF EntryOpen THEN Len(results) ELSE 0)
  /\ IsPrefix(fetchLog, SelectedFiles(Len(response.keys)))
  /\ pc \in {"summary", "done"} =>
       fetchLog = SelectedFiles(Len(response.keys))

C21_Witness ==
  /\ pc = "done"
  /\ Len(response.keys) = 2
  /\ Len(fetchLog) = 3
  /\ entryLog[1].results[1].answer.status = 0
  /\ entryLog[1].results[2].answer.status = 404
  /\ entryLog[2].results[1].answer.status = 200

\* C22: the step that ensures the output folder, taken when the folder
\* exists, raises no error, calls no mkdir and leaves the folder and its
\* files as they were; whenever the step returns the folder exists.
C22_EnsureDirIdempotent ==
  [][ pc = "ensure_dir" =>
        /\ dirExists =>
             /\ pc' # "exited"
             /\ dirExists'
             /\ disk' = disk
             /\ mkdirLog' = mkdirLog
        /\ pc' # "exited" => dirExists' ]_vars

C22_Witness ==
  /\ pc = "entry"
  /\ idx = 1
  /\ entryLog = <<>>
  /\ dir0
  /\ dirExists
  /\ mkdirLog = 0
  /\ disk = disk0
  /\ \E f \in DOMAIN disk : disk[f] = FileOf(OldText)
  /\ console[Len(console) - 1].tag = "using folder"

\* the progress line and the mark of the first n processed entries
RECURSIVE MarksOfLogged(_)
MarksOfLogged(n) ==
  IF n = 0 THEN <<>>
  ELSE MarksOfLogged(n - 1)
         \o <<Line("progress", EntryOf(entryLog[n]).name, 0, 0),
              IF entryLog[n].saved
                THEN Line("saved", EntryOf(entryLog[n]).outputFile, 0, 0)
                ELSE Line("failed", "", 0, 0)>>

\* the progress lines, marks and tallies on the console, in order
ProgressLines ==
  SelectSeq(console,
            LAMBDA l : l.tag \in {"progress", "saved", "failed", "complete"})

\* C23: the progress lines, marks and tallies of the console are, in order:
\* for every processed entry its progress line and then one mark, saved or
\* failed; then the progress line of the entry being processed, if any; and,
\* once the run is done with all selected entries, one tally at the end.
C23_ProgressReporting ==
  /\ ProgressLines =
       MarksOfLogged(Len(entryLog))
         \o (IF EntryOpen
               THEN <<Line("progress", Standard.name, 0, 0)>> ELSE <<>>)
         \o (IF pc = "done" /\ cause = "summary"
               THEN <<Line("complete", "", successCount, failCount)>>
               ELSE <<>>)
  /\ (pc = "done" /\ cause = "summary") => Len(entryLog) = Len(response.keys)

C23_Witness ==
  /\ pc = "done"
  /\ cause = "summary"
  /\ Len(ProgressLines) = 5
  /\ ProgressLines[2].tag = "failed"
  /\ ProgressLines[4].tag = "saved"
  /\ ProgressLines[5].tag = "complete"

\* the run has ended: the summary was printed or the process has exited
Ended == pc \in {"done", "exited"}

\* C24: when every call the run waits for returns, the run ends; and while
\* a request is out the only step of the run is the return of that request,
\* so that without it no source is fetched, no entry is processed and no
\* summary is printed.
C24_Termination ==
  /\ <>Ended
  /\ [][ pc = "await_fetch" =>
           /\ inflight' = Tail(inflight)
           /\ Len(results') = Len(results) + 1 ]_vars
  /\ [][ pc' = "summary" => pc \in {"finish", "ensure_dir"} ]_vars

C24_Witness ==
  /\ pc = "done"
  /\ cause = "summary"
  /\ Len(entryLog) = 2
  /\ Len(fetchLog) = 3
  /\ inflight = <<>>

\* C25: in the single-select variant writeFileSync is called at most once,
\* and only when the action is save or both and a non-empty name was
\* entered, with that name; the run that then comes to its end has written
\* that one file and changed no other; with the action display, with no
\* action, or with no name or an empty name, no file is created or changed.
C25_SingleOutputModes ==
  LET named == ~filename.absent /\ filename.name # ""
      saving == action \in {"save", "both"} /\ named
  IN /\ Len(writeCalls) <= 1
     /\ writeCalls # <<>> => saving /\ writeCalls = <<filename.name>>
     /\ ~saving => disk = disk0 /\ writeLog = <<>>
     /\ (pc = "done" /\ saving) =>
          /\ writeLog = <<[name |-> filename.name, data |-> combinedContent]>>
          /\ disk = [disk0 EXCEPT ![filename.name] = FileOf(combinedContent)]

C25_Witness ==
  /\ pc = "done"
  /\ action = "both"
  /\ filename = Name(OtherName)
  /\ disk0[OtherName] = NoFile
  /\ disk[OtherName] = FileOf(combinedContent)
  /\ Len(writeLog) = 1

\* the output file names of the saved entries among the first n processed
RECURSIVE SavedNames(_)
SavedNames(n) ==
  IF n = 0 THEN <<>>
  ELSE SavedNames(n - 1)
         \o (IF entryLog[n].saved
               THEN <<EntryOf(entryLog[n]).outputFile>> ELSE <<>>)

\* C26: at any time the two counters add up to the number of entries
\* processed so far, savedFiles has successCount elements and lists the
\* output file names of the saved entries in the order they were processed;
\* at the summary the counters add up to the number of selected entries.
C26_SummaryAccounting ==
  /\ successCount + failCount = Len(entryLog)
  /\ Len(savedFiles) = successCount
  /\ savedFiles = SavedNames(Len(entryLog))
  /\ pc \in {"summary", "done"} /\ answered =>
       successCount + failCount = Len(response.keys)
  /\ (pc = "done" /\ cause = "summary") =>
       \E k \in 1..Len(console) :
         /\ console[k].tag = "complete"
         /\ console[k].n + console[k].m = Len(response.keys)

C26_Witness ==
  /\ pc = "done"
  /\ cause = "summary"
  /\ successCount = 1
  /\ failCount = 1
  /\ ~entryLog[1].saved
  /\ savedFiles = <<EntryOf(entryLog[2]).outputFile>>

\* the output file names of the table are pairwise distinct
OutputFilesDistinct ==
  \A i, j \in 1..Len(STANDARDS) :
    i # j => STANDARDS[i].outputFile # STANDARDS[j].outputFile

\* C27: the output file names of the table are pairwise distinct; no two
\* writes of a run go to the same file; and the file of every saved entry
\* holds the combined content of that entry from its write on, to the end
\* of the run.
C27_NoCrossEntryOverwrite ==
  /\ OutputFilesDistinct
  /\ \A i, j \in 1..Len(writeLog) : i # j => writeLog[i].name # writeLog[j].name
  /\ \A i \in 1..Len(entryLog) :
       entryLog[i].saved =>
         disk[EntryOf(entryLog[i]).outputFile] = FileOf(entryLog[i].combined)

C27_Witness ==
  /\ pc = "done"
  /\ Len(entryLog) = 2
  /\ entryLog[1].saved
  /\ entryLog[2].saved
  /\ entryLog[1].combined = <<"a">>
  /\ entryLog[2].combined = <<"b">>
  /\ disk[EntryOf(entryLog[1]).outputFile] = FileOf(<<"a">>)
  /\ disk[EntryOf(entryLog[2]).outputFile] = FileOf(<<"b">>)

\* the lines of the console that tell the folder was created or found
FolderLines ==
  SelectSeq(console, LAMBDA l : l.tag \in {"created folder", "using folder"})

\* C28: once a request was issued or writeFileSync was called the .context
\* folder exists and was ensured exactly once, with at most one mkdirSync;
\* a run that ends with every selected entry failed has the folder too; a
\* run with an empty selection neither creates nor looks for the folder.
C28_DirectoryBeforeWrites ==
  /\ (fetchLog # <<>> \/ writeCalls # <<>>) =>
       /\ dirExists
       /\ Len(FolderLines) = 1
       /\ mkdirLog = (IF dir0 THEN 0 ELSE 1)
  /\ (pc = "done" /\ cause = "summary") => dirExists /\ Len(FolderLines) = 1
  /\ (answered /\ SelectionEmpty(response)) =>
       /\ dirExists = dir0
       /\ mkdirLog = 0
       /\ FolderLines = <<>>
  /\ Len(FolderLines) <= 1

C28_Witness ==
  /\ pc = "done"
  /\ cause = "summary"
  /\ ~dir0
  /\ dirExists
  /\ mkdirLog = 1
  /\ successCount = 0
  /\ failCount = 2
  /\ writeCalls = <<>>
  /\ FolderLines[1].tag = "created folder"

\* C29: a step in which the overwrite prompt is refused or dismissed ends
\* the process with exit code 0 and leaves settings.json, the .claude
\* folder and the statusline script as they were; an existing settings.json
\* is changed only after the prompt was answered yes.
C29_NoOverwriteWithoutConsent ==
  [][ /\ (pc = "overwrite" /\ overwrite' = "no") =>
           /\ pc' = "exited"
           /\ exitCode' = 0
           /\ UNCHANGED <<settings, claudeDir, script>>
      /\ overwrite = "no" => UNCHANGED <<settings, claudeDir, script>>
      /\ (settings # "absent" /\ settings' # settings) =>
           overwrite = "yes" ]_vars

C29_Witness ==
  /\ pc = "exited"
  /\ exitCode = 0
  /\ overwrite = "no"
  /\ cause = "install cancelled"
  /\ settings = "old"
  /\ script = "old"
  /\ claudeDir

\* the combined content the claim calls for: the label block and the text
\* of every part fetchFile returned text for, in order
RECURSIVE HeadedParts(_)
HeadedParts(rs) ==
  IF rs = <<>> THEN <<>>
  ELSE (IF Head(rs).value.null
          THEN <<>>
          ELSE Separator(Head(rs).file) \o Head(rs).value.text)
       \o HeadedParts(Tail(rs))

\* C30: in the single-select variant the combined content is, for every
\* part fetched with success and in source order, the separator block with
\* the path of the part followed by its text, and nothing for a part whose
\* fetch failed; for a standard with one source fetched with success it is
\* never the bare text.
C30_SingleCombining ==
  /\ combinedContent = HeadedParts(results)
  /\ (/\ Len(results) = 1
      /\ ~response.absent
      /\ Len(Selected.files) = 1
      /\ ~results[1].value.null) => combinedContent # results[1].value.text

====
